---------------------------- MODULE Spec2Model ----------------------------
(***************************************************************************)
(* Model of the git metadata resolver of vscode-open-github               *)
(* (src/src/extension.ts).  Text is modelled as TLA+ strings, character    *)
(* by character: Char(s, i) is s.charAt(i - 1).  The file holds two        *)
(* variants of the resolver: the richer one (lines 1-277, detached HEAD    *)
(* supported) and the simpler one (lines 279-519).                         *)
(***************************************************************************)
EXTENDS Integers, Sequences, FiniteSets, TLC

VARIABLES
    editor,       \* vscode.window.activeTextEditor: "none" | "virtual" | "file"
    cursorLine,   \* activeTextEditor.selection.active.line (zero based)
    platform,     \* "posix" | "win32": which flavour of the path module is in use
    fsPath,       \* activeTextEditor.document.uri.fsPath
    gitEntries,   \* the paths named ".git" that exist on disk
    headFile,     \* the file <gitDataPath>/HEAD
    configFile,   \* the file <gitDataPath>/config
    pc,           \* where the running command is: idle, find, head, upstream, remote, finish, done
    variant,      \* "rich" (lines 1-277) or "simple" (lines 279-519)
    cmd,          \* "file" | "blame" | "history": the urlBuilder of the command
    cur,          \* findGitDataPath's local filePath
    gitDataPath,  \* result of findGitDataPath
    head,         \* result of getCurrentHEAD / getCurrentBranch
    pending,      \* getBranchUpstream's locals while it awaits getRemoteUrl
    ret,          \* value getRepoState resolved to (or the exception it rejected with)
    log,          \* the filesystem accesses and section lookups of this invocation
    notified,     \* messages passed to showInformationMessage by this invocation
    opened,       \* URLs passed to openExternal by this invocation
    unhandled,    \* TRUE when openFile's promise rejected
    lastRepo      \* per variant, what getRepoState last resolved to

vars == <<editor, cursorLine, platform, fsPath, gitEntries, headFile, configFile,
          pc, variant, cmd, cur, gitDataPath, head, pending, ret, log,
          notified, opened, unhandled, lastRepo>>

world == <<editor, cursorLine, platform, fsPath, gitEntries, headFile, configFile>>

---------------------------------------------------------------------------
(* Strings *)

\* F applied to arguments that are evaluated first, once each: JavaScript
\* calls by value, and a const holds the value it was initialised with
Call1(F(_), a) == CHOOSE r \in {F(x) : x \in {a}} : TRUE

Call2(F(_, _), a, b) == CHOOSE r \in {F(x, y) : x \in {a}, y \in {b}} : TRUE

Call3(F(_, _, _), a, b, c) ==
    CHOOSE r \in {F(x, y, z) : x \in {a}, y \in {b}, z \in {c}} : TRUE

Call4(F(_, _, _, _), a, b, c, d) ==
    CHOOSE r \in {F(x, y, z, w) : x \in {a}, y \in {b}, z \in {c}, w \in {d}} : TRUE

Char(s, i) == SubSeq(s, i, i)

Min(S) == Call1(LAMBDA T : CHOOSE x \in T : \A y \in T : x <= y, S)

Max(S) == Call1(LAMBDA T : CHOOSE x \in T : \A y \in T : x >= y, S)

\* 0 for no place, else the first of the places
FirstOf(places) == Call1(LAMBDA T : IF T = {} THEN 0 ELSE Min(T), places)

\* 0 for no place, else the last of the places
LastOf(places) == Call1(LAMBDA T : IF T = {} THEN 0 ELSE Max(T), places)

StartsWithAt(s, p, i) ==
    /\ i >= 1
    /\ i + Len(p) - 1 <= Len(s)
    /\ SubSeq(s, i, i + Len(p) - 1) = p

EndsWith(s, p) == Len(s) >= Len(p) /\ SubSeq(s, Len(s) - Len(p) + 1, Len(s)) = p

\* s.indexOf(p, from - 1) + 1: the first place >= from where p occurs, 0 if none
IndexOf(str, pat, start) ==
    Call3(LAMBDA s, p, from :
              FirstOf({i \in from..(Len(s) - Len(p) + 1) : StartsWithAt(s, p, i)}),
          str, pat, start)

LastIndexOf(str, pat) ==
    Call2(LAMBDA s, p : LastOf({i \in 1..(Len(s) - Len(p) + 1) : StartsWithAt(s, p, i)}),
          str, pat)

\* the characters \s matches and trim() removes
WhiteSpace == {" ", "\t", "\n", "\r", "\f"}

\* the characters . does not match
LineTerminators == {"\n", "\r"}

HexDigits == {"0", "1", "2", "3", "4", "5", "6", "7", "8", "9", "a", "b", "c", "d", "e", "f"}

\* String.prototype.trim
Trim(str) ==
    Call1(LAMBDA s :
              Call1(LAMBDA keep : IF keep = {} THEN "" ELSE SubSeq(s, Min(keep), Max(keep)),
                    {i \in 1..Len(s) : Char(s, i) \notin WhiteSpace}),
          str)

\* String.prototype.split with a string separator
RECURSIVE Split(_, _)
Split(str, separator) ==
    Call3(LAMBDA s, sep, i :
              IF i = 0 THEN <<s>>
              ELSE <<SubSeq(s, 1, i - 1)>> \o Split(SubSeq(s, i + Len(sep), Len(s)), sep),
          str, separator, IndexOf(str, separator, 1))

\* s.replace(/c/g, d) for single characters c and d
RECURSIVE ReplaceAll(_, _, _)
ReplaceAll(str, from, to) ==
    Call3(LAMBDA s, c, d :
              IF s = "" THEN ""
              ELSE (IF Char(s, 1) = c THEN d ELSE Char(s, 1))
                   \o ReplaceAll(SubSeq(s, 2, Len(s)), c, d),
          str, from, to)

\* `${n}` for a number n >= 0
RECURSIVE ToDecimal(_)
ToDecimal(number) ==
    Call1(LAMBDA n :
              IF n < 10 THEN Char("0123456789", n + 1)
              ELSE ToDecimal(n \div 10) \o Char("0123456789", (n % 10) + 1),
          number)

---------------------------------------------------------------------------
(* Values: a resolved value, an Err object, or a thrown exception *)

Ok(v) == [t |-> "ok", v |-> v]

Err(msg) == [t |-> "err", msg |-> msg]

Thrown(what) == [t |-> "throw", what |-> what]

None == [t |-> "none"]

\* no HEAD read yet
NoHead == [type |-> "none"]

IsErr(x) == x.t = "err"

IsThrown(x) == x.t = "throw"

\* a file of the filesystem: present with its content, or absent
File(data) == [exists |-> TRUE, data |-> data]

NoFile == [exists |-> FALSE, data |-> ""]

\* fs.readFile wrapped in a promise: resolves with the content or rejects
readFile(file) == IF file.exists THEN Ok(file.data) ELSE Thrown("ENOENT")

\* r settled a step: an Err is returned to the caller and an exception
\* propagates, both unchanged; a value goes on to the rest of the function
AndThen(r, rest(_)) == Call1(LAMBDA x : IF x.t = "ok" THEN rest(x.v) ELSE x, r)

\* try { r } catch (err) { return e }
Catch(r, e) == Call1(LAMBDA x : IF IsThrown(x) THEN e ELSE x, r)

---------------------------------------------------------------------------
(* HEAD *)

ShaLen == 40

RefPattern == "ref: refs/heads/"

\* the end of (.*) started at i: . stops before the first line terminator
DotStarEnd(str, start) ==
    Call3(LAMBDA s, i, stop : IF stop = 0 THEN Len(s) ELSE stop - 1,
          str, start,
          FirstOf({j \in start..Len(str) : Char(str, j) \in LineTerminators}))

\* strHead.match(/ref: refs\/heads\/(.*)/): m[1], or None
matchRef(strHead) ==
    Call1(LAMBDA i :
              IF i = 0 THEN None
              ELSE Ok(SubSeq(strHead, i + Len(RefPattern),
                             DotStarEnd(strHead, i + Len(RefPattern)))),
          IndexOf(strHead, RefPattern, 1))

IsHexRun(s, i, n) ==
    /\ i + n - 1 <= Len(s)
    /\ \A j \in i..(i + n - 1) : Char(s, j) \in HexDigits

\* strHead.match(/([0-9a-f]{40})/): m[1], or None
matchSha1(strHead) ==
    Call1(LAMBDA i : IF i = 0 THEN None ELSE Ok(SubSeq(strHead, i, i + ShaLen - 1)),
          FirstOf({i \in 1..Len(strHead) : IsHexRun(strHead, i, ShaLen)}))

\* the two matches of getCurrentHEAD, in order, and the return after them
parseHEAD(strHead) ==
    Call2(LAMBDA m1, m2 :
              IF m1 # None THEN Ok([type |-> "branch", branch |-> m1.v])
              ELSE IF m2 # None THEN Ok([type |-> "sha1", sha1 |-> m2.v])
              ELSE Err("HEAD file does not match ref pattern or sha1 pattern"),
          matchRef(strHead), matchSha1(strHead))

getCurrentHEAD(path, file) ==
    Catch(AndThen(readFile(file), LAMBDA strHead : parseHEAD(strHead)),
          Err("Cannot read HEAD file in repository at " \o path))

\* the simpler variant's match; its success value is wrapped as a branch HEAD
parseBranch(strHead) ==
    Call1(LAMBDA m :
              IF m # None THEN Ok([type |-> "branch", branch |-> m.v])
              ELSE Err("HEAD file does not match ref: pattern"),
          matchRef(strHead))

getCurrentBranch(path, file) ==
    Catch(AndThen(readFile(file), LAMBDA strHead : parseBranch(strHead)),
          Err("Cannot read HEAD file in repository at " \o path))

---------------------------------------------------------------------------
(* config: the section regular expression *)

\* An atom of the compiled header: c is the character matched, or AnyChar for '.',
\* and q is "1", "+" or "*".
AnyChar == "ANY"

Atom(c, q) == [c |-> c, q |-> q]

\* new RegExp(...) reads sectionName as pattern source.  Of the pattern
\* characters, '.', '+', '*' and '(' are modelled; a '(' opens a group that
\* nothing closes, and a quantifier after a quantifier has nothing to repeat.
RECURSIVE compileFrom(_, _, _)
compileFrom(source, at, compiled) ==
    Call3(LAMBDA src, i, atoms :
              IF i > Len(src) THEN Ok(atoms)
              ELSE IF Char(src, i) = "(" THEN Thrown("SyntaxError: Unterminated group")
              ELSE IF Char(src, i) \in {"+", "*"}
              THEN IF atoms[Len(atoms)].q # "1" THEN Thrown("SyntaxError: Nothing to repeat")
                   ELSE compileFrom(src, i + 1, [atoms EXCEPT ![Len(atoms)].q = Char(src, i)])
              ELSE compileFrom(src, i + 1,
                               Append(atoms, Atom(IF Char(src, i) = "." THEN AnyChar
                                                  ELSE Char(src, i), "1"))),
          source, at, compiled)

\* the atoms of \[${sectionName}\]\n
compileHeader(sectionName) ==
    AndThen(compileFrom(sectionName, 1, <<Atom("[", "1")>>),
            LAMBDA atoms : Ok(atoms \o <<Atom("]", "1"), Atom("\n", "1")>>))

atomMatches(a, c) == IF a.c = AnyChar THEN c \notin LineTerminators ELSE c = a.c

\* how many consecutive characters from pos the atom matches
RECURSIVE runLength(_, _, _)
runLength(atom, str, start) ==
    Call3(LAMBDA a, text, pos :
              IF pos <= Len(text) /\ atomMatches(a, Char(text, pos))
              THEN 1 + runLength(a, text, pos + 1)
              ELSE 0,
          atom, str, start)

\* one round of (\s.*\n) at pos: the place after it, or 0
groupIteration(str, start) ==
    Call2(LAMBDA text, pos :
              IF pos <= Len(text) /\ Char(text, pos) \in WhiteSpace
              THEN Call1(LAMBDA e : IF e < Len(text) /\ Char(text, e + 1) = "\n"
                                    THEN e + 2 ELSE 0,
                         DotStarEnd(text, pos + 1))
              ELSE 0,
          str, start)

RECURSIVE groupRest(_, _)
groupRest(str, start) ==
    Call3(LAMBDA text, pos, e : IF e = 0 THEN pos ELSE groupRest(text, e),
          str, start, groupIteration(str, start))

\* ((\s.*\n)+) at pos, greedy: the place after the last round, or 0
groupEnd(text, pos) ==
    IF groupIteration(text, pos) = 0 THEN 0 ELSE groupRest(text, pos)

\* the places after a run of n characters from where the rest matches
RECURSIVE matchFrom(_, _, _, _)
goodRuns(atoms, k, text, pos, least, run) ==
    {n \in least..run : matchFrom(atoms, k + 1, text, pos + n) # 0}

\* the backtracking matcher: the header atoms from k on at pos, followed by
\* the group; the place where the group starts, or 0.  A quantified atom
\* tries the longest run first.
matchFrom(compiled, at, str, start) ==
    Call4(LAMBDA atoms, k, text, pos :
              IF k > Len(atoms)
              THEN IF groupEnd(text, pos) # 0 THEN pos ELSE 0
              ELSE IF atoms[k].q = "1"
              THEN IF pos <= Len(text) /\ atomMatches(atoms[k], Char(text, pos))
                   THEN matchFrom(atoms, k + 1, text, pos + 1)
                   ELSE 0
              ELSE Call1(LAMBDA good :
                             IF good = {} THEN 0
                             ELSE matchFrom(atoms, k + 1, text, pos + Max(good)),
                         goodRuns(atoms, k, text, pos,
                                  IF atoms[k].q = "+" THEN 1 ELSE 0,
                                  runLength(atoms[k], text, pos))),
          compiled, at, str, start)

\* the match object: index is m.index + 1, from..to delimit m[1]
matchObject(config, s, g) == Ok([index |-> s, from |-> g, to |-> groupEnd(config, g) - 1])

\* the leftmost place where the compiled pattern matches, or 0; a match
\* starts with a character its first atom matches
firstMatch(config, atoms) ==
    FirstOf({s \in {p \in 1..Len(config) : atomMatches(atoms[1], Char(config, p))} :
                matchFrom(atoms, 1, config, s) # 0})

matchAt(config, atoms, s) ==
    IF s = 0 THEN None ELSE matchObject(config, s, matchFrom(atoms, 1, config, s))

\* config.match(new RegExp(...)): the match object, None, or the SyntaxError
matchSection(config, sectionName) ==
    AndThen(compileHeader(sectionName),
            LAMBDA atoms : Call3(matchAt, config, atoms, firstMatch(config, atoms)))

sectionOf(config, sectionName, m) ==
    IF m = None THEN Err("Could not find section for [" \o sectionName \o "]")
    ELSE AndThen(m, LAMBDA mo : Ok(SubSeq(config, mo.from, mo.to)))

extractSection(config, sectionName) ==
    Call3(sectionOf, config, sectionName, matchSection(config, sectionName))

---------------------------------------------------------------------------
(* config: key value pairs.  An object is the sequence of its properties  *)
(* in insertion order.                                                     *)

Undefined == [t |-> "undefined"]

HasKey(obj, key) == \E i \in 1..Len(obj) : obj[i].k = key

\* obj[key]
Get(object, name) ==
    Call2(LAMBDA obj, key :
              IF HasKey(obj, key)
              THEN Ok(obj[CHOOSE i \in 1..Len(obj) : obj[i].k = key].v)
              ELSE Undefined,
          object, name)

\* !obj[key]: undefined and the empty string are falsy
Falsy(x) == x = Undefined \/ x.v = ""

\* obj[key] = value
Set(object, name, val) ==
    Call3(LAMBDA obj, key, value :
              IF HasKey(obj, key)
              THEN [i \in 1..Len(obj) |->
                       IF obj[i].k = key THEN [k |-> key, v |-> value] ELSE obj[i]]
              ELSE Append(obj, [k |-> key, v |-> value]),
          object, name, val)

\* one line of the loop of decodeKeyValuePairs
decodePieces(r, trimmedLine, pieces) ==
    IF Len(trimmedLine) = 0 \/ Len(pieces) = 1 THEN r
    ELSE Set(r, pieces[1], pieces[2])

RECURSIVE decodeLines(_, _, _)
decodeLines(allLines, at, object) ==
    Call3(LAMBDA lines, i, r :
              IF i > Len(lines) THEN r
              ELSE decodeLines(lines, i + 1,
                               Call3(decodePieces, r, Trim(lines[i]),
                                     Split(Trim(lines[i]), " = "))),
          allLines, at, object)

decodeKeyValuePairs(str) == decodeLines(Split(str, "\n"), 1, <<>>)

\* JSON.stringify of a string
jsonChar(c) ==
    CASE c = "\"" -> "\\\""
      [] c = "\\" -> "\\\\"
      [] c = "\t" -> "\\t"
      [] c = "\n" -> "\\n"
      [] c = "\r" -> "\\r"
      [] c = "\f" -> "\\f"
      [] OTHER -> c

RECURSIVE JsonEscape(_)
JsonEscape(str) ==
    Call1(LAMBDA s :
              IF s = "" THEN ""
              ELSE Call1(jsonChar, Char(s, 1)) \o JsonEscape(SubSeq(s, 2, Len(s))),
          str)

RECURSIVE JsonMembers(_, _)
JsonMembers(object, at) ==
    Call2(LAMBDA obj, i :
              IF i > Len(obj) THEN ""
              ELSE (IF i > 1 THEN "," ELSE "")
                   \o "\"" \o JsonEscape(obj[i].k) \o "\":\"" \o JsonEscape(obj[i].v) \o "\""
                   \o JsonMembers(obj, i + 1),
          object, at)

\* JSON.stringify of an object of strings
JsonStringify(obj) == "{" \o JsonMembers(obj, 1) \o "}"

---------------------------------------------------------------------------
(* Paths: the functions of Node's path module used by the resolver, on     *)
(* absolute, normalized paths                                              *)

Sep(plat) == IF plat = "win32" THEN "\\" ELSE "/"

Root(plat) == IF plat = "win32" THEN "c:\\" ELSE "/"

\* path.dirname: the root is its own parent
dirname(plat, path) ==
    Call1(LAMBDA i : IF i <= Len(Root(plat)) THEN Root(plat) ELSE SubSeq(path, 1, i - 1),
          LastIndexOf(path, Sep(plat)))

\* path.join(dir, name)
join(plat, dir, name) ==
    IF EndsWith(dir, Sep(plat)) THEN dir \o name ELSE dir \o Sep(plat) \o name

\* path.relative(from, to), from being a directory above to
relative(plat, from, to) ==
    IF EndsWith(from, Sep(plat))
    THEN SubSeq(to, Len(from) + 1, Len(to))
    ELSE SubSeq(to, Len(from) + 2, Len(to))

\* a probe that finds a .git entry wherever it looks
existsAnywhere(entries, path) == TRUE

\* exists(path): whether the entry is on disk
exists(entries, path) == path \in entries

---------------------------------------------------------------------------
(* Upstream resolution *)

ErrBranchInfo == Err("An error occurend when getting branch info")

ErrRemoteInfo == Err("An error occurend when getting remote info")

RepoState(path, branch, upstream, upstreamBranch) ==
    Ok([gitDataPath |-> path, branch |-> branch,
        upstream |-> upstream, upstreamBranch |-> upstreamBranch])

\* getBranchUpstream's checks of the decoded branch section
checkBranchInfo(branchInfo, remoteName, remoteFullBranchName) ==
    IF Falsy(remoteName) \/ Falsy(remoteFullBranchName)
    THEN Err("Could not determine upstream info from branch info "
             \o JsonStringify(branchInfo))
    ELSE IF ~StartsWithAt(remoteFullBranchName.v, "refs/heads/", 1)
    THEN Err("Remote branch name does not start with refs/heads -- "
             \o remoteFullBranchName.v)
    ELSE Ok([remoteName |-> remoteName.v,
             remoteBranchName |-> SubSeq(remoteFullBranchName.v, Len("refs/heads/") + 1,
                                         Len(remoteFullBranchName.v))])

\* getBranchUpstream from extractSection(branch ...) to remoteBranchName
\* (lines 134-150, and the same text at lines 397-413): the remote's name and
\* the upstream branch, an Err, or the exception extractSection threw
branchInfoOf(strConfig, branch) ==
    AndThen(extractSection(strConfig, "branch \"" \o branch \o "\""),
            LAMBDA branchSection :
                Call1(LAMBDA branchInfo :
                          Call3(checkBranchInfo, branchInfo,
                                Get(branchInfo, "remote"), Get(branchInfo, "merge")),
                      decodeKeyValuePairs(branchSection)))

checkRemoteInfo(remoteInfo, url) ==
    IF Falsy(url)
    THEN Err("Could not determine upstream url from remote info "
             \o JsonStringify(remoteInfo))
    ELSE Ok(url.v)

\* from extractSection(remote ...) to remoteInfo['url'] (lines 174-184, and
\* the same text at lines 415-425)
remoteUrlOf(strConfig, remoteName) ==
    AndThen(extractSection(strConfig, "remote \"" \o remoteName \o "\""),
            LAMBDA remoteSection :
                Call1(LAMBDA remoteInfo :
                          Call2(checkRemoteInfo, remoteInfo, Get(remoteInfo, "url")),
                      decodeKeyValuePairs(remoteSection)))

\* getRemoteUrl without its try block
getRemoteUrlUncaught(file, remoteName) ==
    AndThen(readFile(file), LAMBDA strConfig : remoteUrlOf(strConfig, remoteName))

\* getRemoteUrl: its try block catches the rejected read and the thrown
\* SyntaxError alike
getRemoteUrl(file, remoteName) ==
    Catch(AndThen(readFile(file), LAMBDA strConfig : remoteUrlOf(strConfig, remoteName)),
          ErrRemoteInfo)

\* the simpler getBranchUpstream, whole: one read, one try block
getBranchUpstreamSimple(path, file, branch) ==
    Catch(AndThen(readFile(file), LAMBDA strConfig :
              AndThen(branchInfoOf(strConfig, branch), LAMBDA b :
                  AndThen(remoteUrlOf(strConfig, b.remoteName), LAMBDA remoteUrl :
                      RepoState(path, branch, remoteUrl, b.remoteBranchName)))),
          ErrBranchInfo)

\* the richer getBranchUpstream up to its call of getRemoteUrl
getBranchUpstreamHead(file, branch) ==
    Catch(AndThen(readFile(file), LAMBDA strConfig : branchInfoOf(strConfig, branch)),
          ErrBranchInfo)

\* the richer getBranchUpstream after getRemoteUrl settled with remoteUrl: the
\* call stands inside the try block
getBranchUpstreamTail(path, branch, remoteBranchName, remoteUrl) ==
    Catch(AndThen(remoteUrl, LAMBDA url : RepoState(path, branch, url, remoteBranchName)),
          ErrBranchInfo)

\* getRepoState's detached branch after getRemoteUrl settled: no try block
detachedState(path, sha1, upstream) ==
    AndThen(upstream, LAMBDA url : RepoState(path, sha1, url, sha1))

---------------------------------------------------------------------------
(* getCurrentState's tail and the URL builders *)

\* repoState.upstream.match(/^https:\/\/(.*)\.git$/)
matchesGitHubUrl(upstream) ==
    /\ StartsWithAt(upstream, "https://", 1)
    /\ EndsWith(upstream, ".git")
    /\ Len(upstream) >= Len("https://") + Len(".git")
    /\ \A i \in 1..Len(upstream) : Char(upstream, i) \notin LineTerminators

\* upstream.replace(/\.git$/, '')
stripDotGit(upstream) ==
    IF EndsWith(upstream, ".git") THEN SubSeq(upstream, 1, Len(upstream) - Len(".git"))
    ELSE upstream

createFileUrl(state) ==
    state.upstream \o "/blob/" \o state.upstreamBranch \o "/" \o state.filePath
        \o "#L" \o ToDecimal(state.lineNumber)

\* a blame URL with the cursor line as the editor counts it
createBlameUrlZeroBased(state) ==
    state.upstream \o "/blame/" \o state.upstreamBranch \o "/" \o state.filePath
        \o "#L" \o ToDecimal(state.lineNumber - 1)

createBlameUrl(state) ==
    state.upstream \o "/blame/" \o state.upstreamBranch \o "/" \o state.filePath
        \o "#L" \o ToDecimal(state.lineNumber)

createHistoryUrl(state) ==
    state.upstream \o "/commits/" \o state.upstreamBranch \o "/" \o state.filePath

urlBuilder(c, state) ==
    CASE c = "file" -> createFileUrl(state)
      [] c = "blame" -> createBlameUrl(state)
      [] c = "history" -> createHistoryUrl(state)

\* getCurrentState from line 78 on, given a resolved repoState
viewState(plat, path, line, repoState) ==
    IF ~matchesGitHubUrl(repoState.upstream)
    THEN Err("Could not identify GH url " \o repoState.upstream)
    ELSE Ok([branch |-> repoState.branch,
             upstream |-> stripDotGit(repoState.upstream),
             upstreamBranch |-> repoState.upstreamBranch,
             lineNumber |-> line + 1,
             filePath |-> ReplaceAll(relative(plat, dirname(plat, repoState.gitDataPath), path),
                                     "\\", "/")])

---------------------------------------------------------------------------
(* The pipeline of one command, one action per stretch between awaits *)

Commands == {"file", "blame", "history"}

Variants == {"rich", "simple"}

Event(op, arg) == [op |-> op, arg |-> arg]

\* getRepoState after the HEAD was read: a detached HEAD goes straight to
\* getRemoteUrl, a branch to getBranchUpstream
afterHead(h) == IF h.type = "sha1" THEN "remote" ELSE "upstream"

\* the remote getRemoteUrl is called with
remoteNameFor(h, p) == IF h.type = "sha1" THEN "origin" ELSE p.remoteName

\* openFile starts: getCurrentState up to its call of getRepoState
Invoke(c, v) ==
    /\ pc \in {"idle", "done"}
    /\ cmd' = c
    /\ variant' = v
    /\ gitDataPath' = ""
    /\ head' = NoHead
    /\ pending' = None
    /\ ret' = None
    /\ log' = <<>>
    /\ opened' = <<>>
    /\ unhandled' = FALSE
    /\ IF editor = "none"
       THEN /\ notified' = <<"No file selected!">>
            /\ pc' = "done"
            /\ cur' = ""
       ELSE IF editor = "virtual"
       THEN /\ notified' = <<"Can only open files!">>
            /\ pc' = "done"
            /\ cur' = ""
       ELSE /\ notified' = <<>>
            /\ pc' = "find"
            /\ cur' = fsPath
    /\ UNCHANGED <<world, lastRepo>>

\* one round of findGitDataPath's loop
FindStep ==
    /\ pc = "find"
    /\ LET dirPath == dirname(platform, cur)
           candidate == join(platform, dirPath, ".git")
       IN  IF dirPath = cur
           THEN /\ ret' = Err("Could not find .git folder for file " \o cur \o ".")
                /\ pc' = "finish"
                /\ UNCHANGED <<cur, gitDataPath, log>>
           ELSE /\ cur' = dirPath
                /\ log' = Append(log, Event("exists", candidate))
                /\ IF exists(gitEntries, candidate)
                   THEN gitDataPath' = candidate /\ pc' = "head"
                   ELSE pc' = "find" /\ UNCHANGED gitDataPath
                /\ UNCHANGED ret
    /\ UNCHANGED <<world, variant, cmd, head, pending, notified, opened, unhandled, lastRepo>>

\* getCurrentHEAD (richer variant) or getCurrentBranch (simpler variant)
ReadHead ==
    /\ pc = "head"
    /\ \E h \in {IF variant = "rich" THEN getCurrentHEAD(gitDataPath, headFile)
                  ELSE getCurrentBranch(gitDataPath, headFile)} :
        /\ log' = Append(log, Event("readFile", join(platform, gitDataPath, "HEAD")))
        /\ IF IsErr(h)
           THEN ret' = h /\ pc' = "finish" /\ UNCHANGED head
           ELSE head' = h.v /\ pc' = afterHead(h.v) /\ UNCHANGED ret
    /\ UNCHANGED <<world, variant, cmd, cur, gitDataPath, pending, notified, opened,
                   unhandled, lastRepo>>

\* getBranchUpstream: whole in the simpler variant, up to the call of
\* getRemoteUrl in the richer one
BranchUpstream ==
    /\ pc = "upstream"
    /\ \E b \in {getBranchUpstreamHead(configFile, head.branch)},
          reads \in {<<Event("readFile", join(platform, gitDataPath, "config"))>>
                     \o (IF configFile.exists
                         THEN <<Event("section", "branch \"" \o head.branch \o "\"")>>
                         ELSE <<>>)} :
           IF variant = "simple"
           THEN /\ ret' = getBranchUpstreamSimple(gitDataPath, configFile, head.branch)
                /\ pc' = "finish"
                /\ log' = log \o reads
                          \o (IF b.t = "ok"
                              THEN <<Event("section", "remote \"" \o b.v.remoteName \o "\"")>>
                              ELSE <<>>)
                /\ UNCHANGED pending
           ELSE /\ log' = log \o reads
                /\ IF IsErr(b)
                   THEN ret' = b /\ pc' = "finish" /\ UNCHANGED pending
                   ELSE pending' = b.v /\ pc' = "remote" /\ UNCHANGED ret
    /\ UNCHANGED <<world, variant, cmd, cur, gitDataPath, head, notified, opened,
                   unhandled, lastRepo>>

\* getRemoteUrl, and what its caller makes of the outcome
RemoteUrl ==
    /\ pc = "remote"
    /\ \E name \in {remoteNameFor(head, pending)} :
       \E r \in {getRemoteUrl(configFile, name)} :
           /\ log' = log \o <<Event("readFile", join(platform, gitDataPath, "config"))>>
                         \o (IF configFile.exists
                             THEN <<Event("section", "remote \"" \o name \o "\"")>>
                             ELSE <<>>)
           /\ ret' = IF head.type = "sha1"
                     THEN detachedState(gitDataPath, head.sha1, r)
                     ELSE getBranchUpstreamTail(gitDataPath, head.branch,
                                                pending.remoteBranchName, r)
    /\ pc' = "finish"
    /\ UNCHANGED <<world, variant, cmd, cur, gitDataPath, head, pending, notified, opened,
                   unhandled, lastRepo>>

\* getRepoState has settled: the rest of getCurrentState and of openFile
Finish ==
    /\ pc = "finish"
    /\ pc' = "done"
    /\ IF IsThrown(ret)
       THEN unhandled' = TRUE /\ UNCHANGED <<notified, opened>>
       ELSE IF IsErr(ret)
       THEN notified' = Append(notified, ret.msg) /\ UNCHANGED <<opened, unhandled>>
       ELSE \E state \in {viewState(platform, fsPath, cursorLine, ret.v)} :
                IF IsErr(state)
                THEN notified' = Append(notified, state.msg) /\ UNCHANGED <<opened, unhandled>>
                ELSE opened' = Append(opened, urlBuilder(cmd, state.v))
                     /\ UNCHANGED <<notified, unhandled>>
    /\ UNCHANGED <<world, variant, cmd, cur, gitDataPath, head, pending, ret, log, lastRepo>>

Step == FindStep \/ ReadHead \/ BranchUpstream \/ RemoteUrl \/ Finish

Next == (\E c \in Commands, v \in Variants : Invoke(c, v)) \/ Step

---------------------------------------------------------------------------
(* The environments a command may run in.  The editor session and the      *)
(* repository on disk are fixed when the extension starts; every command   *)
(* reads them afresh.                                                      *)

MaxDepth == 2

MaxCursorLine == 10

MaxHexExtra == 1

MaxBlankLines == 1

World(e, l, plat, path, entries, hf, cf) ==
    [editor |-> e, cursorLine |-> l, platform |-> plat, fsPath |-> path,
     gitEntries |-> entries, headFile |-> hf, configFile |-> cf]

RECURSIVE Hex(_)
Hex(n) == IF n = 0 THEN "" ELSE Hex(n - 1) \o Char("deadbeef", ((n - 1) % 8) + 1)

RECURSIVE Blank(_)
Blank(n) == IF n = 0 THEN "" ELSE "\n" \o Blank(n - 1)

ChopNewline(s) == IF EndsWith(s, "\n") THEN SubSeq(s, 1, Len(s) - 1) ELSE s

GoodUrl == "https://h.io/o/r.git"

GoodConfig ==
    "[core]\n\tbare = false\n"
    \o "[remote \"origin\"]\n\turl = " \o GoodUrl \o "\n\tfetch = +refs/heads/*\n"
    \o "[branch \"main\"]\n\tremote = origin\n\tmerge = refs/heads/main\n"

GoodHead == File("ref: refs/heads/main\n")

\* editor sessions: no editor, a virtual document, a file with the cursor on
\* some line
EditorWorlds ==
    {World(e, 0, "posix", "/w/src/app.ts", {"/w/.git"}, GoodHead, File(GoodConfig)) :
        e \in {"none", "virtual"}}
    \cup {World("file", l, "posix", "/w/src/app.ts", {"/w/.git"}, GoodHead, File(GoodConfig)) :
        l \in 0..MaxCursorLine}

\* directory trees: the k-th ancestor directory below the root
RECURSIVE DirAt(_, _)
DirAt(plat, k) ==
    IF k = 0 THEN Root(plat) ELSE join(plat, DirAt(plat, k - 1), "d" \o ToDecimal(k))

FileNames(plat) == IF plat = "posix" THEN {"app.ts", "a\\b.ts"} ELSE {"app.ts"}

PathWorlds ==
    UNION {
        {World("file", 0, plat, join(plat, DirAt(plat, d), f), entries, GoodHead,
               File(GoodConfig)) :
            f \in FileNames(plat),
            entries \in SUBSET {join(plat, DirAt(plat, k), ".git") : k \in 0..d}} :
        plat \in {"posix", "win32"}, d \in 0..MaxDepth}

\* HEAD files
BranchNames == {"main", "m", "a.b", "a+b", "a*", "a(b", "a\"b", "a]b"}

HeadPool ==
    {NoFile, File(""), File("garbage\n"), File(Hex(ShaLen)),
     File("commit " \o Hex(ShaLen) \o "\n"), File("xref: refs/heads/main"),
     File("ref: refs/heads/main\r\n"), File("ref: refs/tags/v1\n")}
    \cup {File(RefPattern \o n \o "\n") : n \in BranchNames}
    \cup {File(Hex(ShaLen + d) \o "\n") : d \in (-1)..MaxHexExtra}

HeadWorlds ==
    {World("file", 0, "posix", "/w/src/app.ts", {"/w/.git"}, hf, cf) :
        hf \in HeadPool, cf \in {File(GoodConfig), NoFile}}

\* config files: a branch section, a remote "origin" section and a remote
\* "up" section, each in several shapes or absent, with blank lines between,
\* the last line with or without its newline
\* branch sections that getBranchUpstream gives up on before it looks for a
\* remote, or no branch section at all
PartialBranchSections ==
    {"",
     "[branch \"m\"]\n",
     "[branch \"m\"]\n\t# none\n",
     "[branch \"m\"]\n\tremote = origin\n",
     "[branch \"m\"]\n\tmerge = refs/heads/dev\n",
     "[branch \"m\"]\n\tremote = origin\n\tmerge = refs/tags/v1\n"}

\* branch sections that name a remote and an upstream branch
FullBranchSections ==
    {"[branch \"m\"]\n\tremote = origin\n\tmerge = refs/heads/dev\n",
     "[branch \"m\"]\n\tremote = up\n\tmerge = refs/heads/m\n",
     "[branch \"m\"]\n\tremote = a(b\n\tmerge = refs/heads/m\n"}

\* what a detached HEAD finds in the config beside the remotes
DetachedBranchSections ==
    {"", "[branch \"m\"]\n\tremote = up\n\tmerge = refs/heads/m\n"}

OriginUrl == "[remote \"origin\"]\n\turl = " \o GoodUrl \o "\n"

OriginSsh == "[remote \"origin\"]\n\turl = git@h.io:o/r.git\n"

OriginBare == "[remote \"origin\"]\n\turl = https://.git\n"

OriginNoUrl == "[remote \"origin\"]\n\tfetch = +refs/heads/*\n"

UpUrl == "[remote \"up\"]\n\turl = https://h.io/up/r.git\n"

RemoteSections ==
    {<<"", "">>, <<OriginUrl, "">>, <<OriginSsh, "">>, <<OriginBare, "">>,
     <<OriginNoUrl, "">>, <<OriginNoUrl, UpUrl>>, <<"", UpUrl>>}

ConfigText(b, r, g) == b \o Blank(g) \o r[1] \o Blank(g) \o r[2]

ConfigsOf(branchSections, remoteSections) ==
    {ConfigText(b, r, g) : b \in branchSections, r \in remoteSections, g \in 0..MaxBlankLines}
    \cup {ChopNewline(ConfigText(b, r, 0)) : b \in branchSections, r \in remoteSections}

ConfigWorlds ==
    {World("file", 0, "posix", "/w/src/app.ts", {"/w/.git"}, File("ref: refs/heads/m\n"),
           File(cf)) :
        cf \in ConfigsOf(PartialBranchSections, {<<"", "">>, <<OriginUrl, "">>})
               \cup ConfigsOf(FullBranchSections, RemoteSections)}
    \cup {World("file", 0, "posix", "/w/src/app.ts", {"/w/.git"}, File(Hex(ShaLen) \o "\n"),
                File(cf)) : cf \in ConfigsOf(DetachedBranchSections, RemoteSections)}

\* section names: the branch HEAD names against the branch a header names,
\* the header at the start of its line or not
NamePairs ==
    {<<n, n>> : n \in BranchNames}
    \cup {<<"a.b", "axb">>, <<"a+b", "aab">>, <<"a*", "a">>, <<"m", "main">>}

NameWorlds ==
    {World("file", 0, "posix", "/w/src/app.ts", {"/w/.git"},
           File(RefPattern \o np[1] \o "\n"),
           File(pre \o "[branch \"" \o np[2] \o "\"]\n\tremote = origin\n\tmerge = refs/heads/dev\n"
                \o OriginUrl)) :
        np \in NamePairs, pre \in {"", "x"}}

Worlds == EditorWorlds \cup PathWorlds \cup HeadWorlds \cup ConfigWorlds \cup NameWorlds

Init ==
    /\ \E w \in Worlds :
        /\ editor = w.editor
        /\ cursorLine = w.cursorLine
        /\ platform = w.platform
        /\ fsPath = w.fsPath
        /\ gitEntries = w.gitEntries
        /\ headFile = w.headFile
        /\ configFile = w.configFile
    /\ pc = "idle"
    /\ variant = "rich"
    /\ cmd = "file"
    /\ cur = ""
    /\ gitDataPath = ""
    /\ head = NoHead
    /\ pending = None
    /\ ret = None
    /\ log = <<>>
    /\ notified = <<>>
    /\ opened = <<>>
    /\ unhandled = FALSE
    /\ lastRepo = [v \in Variants |-> None]

Spec == Init /\ [][Next]_vars

\* the event loop runs every continuation that is ready
FairSpec == Init /\ [][Next]_vars /\ WF_vars(Step)

\* a caller of both variants keeps what getRepoState returned to each
Record ==
    /\ pc = "done"
    /\ ret # None
    /\ lastRepo[variant] # ret
    /\ lastRepo' = [lastRepo EXCEPT ![variant] = ret]
    /\ UNCHANGED <<world, pc, variant, cmd, cur, gitDataPath, head, pending, ret, log,
                   notified, opened, unhandled>>

NextRecorded == Next \/ Record

RecordedSpec == Init /\ [][NextRecorded]_vars

---------------------------------------------------------------------------
(* The config reader as section 4.3 of the specification words it, for     *)
(* the claims to compare the code against: a header is the whole line      *)
(* [<sectionHeader>], its section the lines after it that begin with a     *)
(* blank or a tab, up to the first line that does not, or the end of file. *)

RefHeaderAt(config, hdr, p) ==
    /\ p = 1 \/ Char(config, p - 1) = "\n"
    /\ StartsWithAt(config, "[" \o hdr \o "]", p)
    /\ p + Len(hdr) + 2 > Len(config) \/ Char(config, p + Len(hdr) + 2) = "\n"

RefHeaders(config, hdr) == {p \in 1..Len(config) : RefHeaderAt(config, hdr, p)}

\* the last place of the lines that belong to the section whose lines start at i
RECURSIVE RefBodyEnd(_, _)
RefBodyEnd(config, i) ==
    IF i <= Len(config) /\ Char(config, i) \in {" ", "\t"}
    THEN IF IndexOf(config, "\n", i) = 0 THEN Len(config)
         ELSE RefBodyEnd(config, IndexOf(config, "\n", i) + 1)
    ELSE i - 1

RefBodyText(config, from) == SubSeq(config, from, RefBodyEnd(config, from))

RefSection(config, hdr) ==
    IF RefHeaders(config, hdr) = {} THEN None
    ELSE Ok(RefBodyText(config, Min(RefHeaders(config, hdr)) + Len(hdr) + 3))

\* the value of key in section hdr: Ok(value), or Undefined
RefValue(config, hdr, key) ==
    IF RefSection(config, hdr) = None THEN Undefined
    ELSE Get(decodeKeyValuePairs(RefSection(config, hdr).v), key)

SectionLookups == {i \in 1..Len(log) : log[i].op = "section"}

\* the name between the quotes of a section name
InnerName(sectionName) == SubSeq(sectionName, Len("branch \"") + 1, Len(sectionName) - 1)

Contains(s, c) == IndexOf(s, c, 1) # 0

---------------------------------------------------------------------------
(* Claims *)

C1_Segment == [file |-> "/blob/", blame |-> "/blame/", history |-> "/commits/"]

\* the directories above path: the text before each separator, the root for the first
C1_Ancestors(plat, path) ==
    {IF i <= Len(Root(plat)) THEN Root(plat) ELSE SubSeq(path, 1, i - 1) :
        i \in {j \in 1..Len(path) : Char(path, j) = Sep(plat)}}

\* the entry name directly or deeper under directory dir
C1_Under(dir, name) ==
    IF EndsWith(dir, Sep(platform)) THEN dir \o name ELSE dir \o Sep(platform) \o name

\* the path of the file below the directory that holds the located .git
C1_RawPath ==
    CHOOSE raw \in {SubSeq(fsPath, i, Len(fsPath)) : i \in 1..Len(fsPath)} :
        \E dir \in C1_Ancestors(platform, fsPath) :
            /\ ret.v.gitDataPath = C1_Under(dir, ".git")
            /\ fsPath = C1_Under(dir, raw)

C1_SameButSlashes(a, b) ==
    /\ Len(a) = Len(b)
    /\ \A i \in 1..Len(a) : Char(a, i) = (IF Char(b, i) = "\\" THEN "/" ELSE Char(b, i))

C1_DigitValue(c) == CHOOSE d \in 0..9 : Char("0123456789", d + 1) = c

RECURSIVE C1_Number(_)
C1_Number(digits) ==
    IF digits = "" THEN 0
    ELSE 10 * C1_Number(SubSeq(digits, 1, Len(digits) - 1))
         + C1_DigitValue(Char(digits, Len(digits)))

\* url is prefix, then the file path with slashes only, then the line anchor
\* (none for the history command)
C1_UrlIs(url, prefix, anchorAt) ==
    /\ StartsWithAt(url, prefix, 1)
    /\ IF cmd = "history"
       THEN /\ anchorAt = 0
            /\ C1_SameButSlashes(SubSeq(url, Len(prefix) + 1, Len(url)), C1_RawPath)
       ELSE /\ anchorAt > Len(prefix)
            /\ C1_SameButSlashes(SubSeq(url, Len(prefix) + 1, anchorAt - 1), C1_RawPath)
            /\ anchorAt + 2 <= Len(url)
            /\ \A i \in (anchorAt + 2)..Len(url) : Char(url, i) \in HexDigits \ {"a", "b", "c", "d", "e", "f"}
            /\ C1_Number(SubSeq(url, anchorAt + 2, Len(url))) = cursorLine + 1
            /\ cursorLine + 1 >= 1

\* C1: when the resolution succeeds the URL opened is the resolved upstream
\* without its final ".git", then /blob/, /blame/ or /commits/ by command, the
\* upstream branch, "/", the file's path below the directory holding .git with
\* every backslash turned into "/", and, except for history, "#L" and the
\* cursor line plus one.
C1_UrlFormat ==
    (pc = "done" /\ opened # <<>>) =>
        /\ Len(opened) = 1
        /\ EndsWith(ret.v.upstream, ".git")
        /\ C1_UrlIs(opened[1],
                    SubSeq(ret.v.upstream, 1, Len(ret.v.upstream) - 4) \o C1_Segment[cmd]
                        \o ret.v.upstreamBranch \o "/",
                    LastIndexOf(opened[1], "#L"))

C1_Witness ==
    /\ pc = "done"
    /\ cmd = "blame"
    /\ cursorLine = 9
    /\ opened = <<"https://h.io/o/r/blame/main/src/app.ts#L10">>

C2_NoUrl(v) == v = Undefined \/ v.v = ""

\* C2: with a detached HEAD the only section looked up is remote "origin";
\* a success carries the SHA as branch and as upstream branch and the url of
\* remote "origin" as upstream; without a remote "origin" or without its url
\* the call fails.
C2_DetachedUsesOrigin ==
    (pc = "done" /\ head.type = "sha1") =>
        /\ \A i \in SectionLookups : log[i].arg = "remote \"origin\""
        /\ ret.t = "ok" =>
            /\ ret.v.branch = head.sha1
            /\ ret.v.upstreamBranch = head.sha1
            /\ configFile.exists
            /\ RefValue(configFile.data, "remote \"origin\"", "url") = Ok(ret.v.upstream)
        /\ (~configFile.exists
            \/ C2_NoUrl(RefValue(configFile.data, "remote \"origin\"", "url"))) => IsErr(ret)

\* C3: a resolved URL is accepted only when it starts with https://, ends
\* with .git and has at least one character between; any other resolved URL
\* yields the unsupported-URL message and opens nothing.
C3_HttpsGitOnly ==
    (pc = "done" /\ ret.t = "ok") =>
        IF /\ StartsWithAt(ret.v.upstream, "https://", 1)
           /\ EndsWith(ret.v.upstream, ".git")
           /\ Len(ret.v.upstream) >= Len("https://") + 1 + Len(".git")
        THEN notified = <<>> /\ Len(opened) = 1
        ELSE opened = <<>> /\ notified = <<"Could not identify GH url " \o ret.v.upstream>>

C4_Kind(r) ==
    IF r.t = "ok" THEN "Ok"
    ELSE IF r.t = "throw" THEN "Thrown"
    ELSE IF StartsWithAt(r.msg, "Could not find section for [branch ", 1) THEN "NoBranchSection"
    ELSE IF StartsWithAt(r.msg, "Could not determine upstream info ", 1)
    THEN "IncompleteBranchConfig"
    ELSE IF StartsWithAt(r.msg, "Remote branch name does not start ", 1) THEN "UnsupportedMergeRef"
    ELSE IF StartsWithAt(r.msg, "Could not find section for [remote ", 1) THEN "NoRemoteSection"
    ELSE IF StartsWithAt(r.msg, "Could not determine upstream url ", 1)
    THEN "IncompleteRemoteConfig"
    ELSE "Other"

C4_ExpectedRemote(config, remote) ==
    IF RefSection(config, "remote \"" \o remote \o "\"") = None THEN "NoRemoteSection"
    ELSE IF C2_NoUrl(RefValue(config, "remote \"" \o remote \o "\"", "url"))
    THEN "IncompleteRemoteConfig"
    ELSE "Ok"

C4_ExpectedKind(config, hdr) ==
    IF RefSection(config, hdr) = None THEN "NoBranchSection"
    ELSE IF C2_NoUrl(RefValue(config, hdr, "remote")) \/ C2_NoUrl(RefValue(config, hdr, "merge"))
    THEN "IncompleteBranchConfig"
    ELSE IF ~StartsWithAt(RefValue(config, hdr, "merge").v, "refs/heads/", 1)
    THEN "UnsupportedMergeRef"
    ELSE C4_ExpectedRemote(config, RefValue(config, hdr, "remote").v)

\* C4: on a branch, getBranchUpstream reports the first failing check in the
\* order: branch section missing, remote or merge key missing (also for a
\* section without keys), merge not under refs/heads/, remote section
\* missing, url missing; it succeeds only when all pass, with the merge value
\* less refs/heads/ as upstream branch and the named remote's url as upstream.
C4_CheckOrder ==
    (pc = "done" /\ head.type = "branch" /\ configFile.exists) =>
        /\ C4_Kind(ret) = C4_ExpectedKind(configFile.data, "branch \"" \o head.branch \o "\"")
        /\ ret.t = "ok" =>
            /\ "refs/heads/" \o ret.v.upstreamBranch
                   = RefValue(configFile.data, "branch \"" \o head.branch \o "\"", "merge").v
            /\ Ok(ret.v.upstream)
                   = RefValue(configFile.data,
                              "remote \"" \o RefValue(configFile.data,
                                  "branch \"" \o head.branch \o "\"", "remote").v \o "\"",
                              "url")

C5_Running == pc \notin {"idle", "done"}

C5_Failed == ret.t \in {"err", "throw"}

\* what a finished command left behind: one notification and no URL, or one
\* URL and no notification, the URL only after every step succeeded
C5_Outcome ==
    /\ ~unhandled
    /\ Len(notified) + Len(opened) <= 1
    /\ C5_Running => (notified = <<>> /\ opened = <<>>)
    /\ pc = "done" =>
        /\ Len(notified) + Len(opened) = 1
        /\ opened # <<>> => (ret.t = "ok" /\ ~IsErr(viewState(platform, fsPath, cursorLine, ret.v)))
        /\ (editor # "file" \/ C5_Failed) => Len(notified) = 1

\* after a step has failed nothing is read or looked up any more: the next
\* step is the one that shows the notification
C5_StopsAtFailure ==
    (C5_Running /\ C5_Failed) =>
        (pc' = "done" /\ log' = log /\ ret' = ret /\ opened' = <<>>)

\* C5: every command invocation terminates, with one notification and no URL
\* after the pipeline stopped at its first failing step, or with one URL and
\* no notification after every step succeeded; nothing escapes as an
\* unhandled exception and no step runs after the first failing one.
C5_OneOutcome ==
    /\ []C5_Outcome
    /\ [][C5_StopsAtFailure]_vars
    /\ (C5_Running ~> (pc = "done"))

C5_Witness ==
    /\ pc = "done"
    /\ variant = "rich"
    /\ head.type = "sha1"
    /\ ~configFile.exists
    /\ notified = <<"An error occurend when getting remote info">>
    /\ opened = <<>>
    /\ Len(log) = 4

\* the ancestors of the start path that hold a .git entry
C6_WithGit ==
    {d \in C1_Ancestors(platform, fsPath) : C1_Under(d, ".git") \in gitEntries}

\* the k-th ancestor of the start path, its parent directory being the first
C6_AncestorAt(k) ==
    CHOOSE d \in C1_Ancestors(platform, fsPath) :
        Cardinality({e \in C1_Ancestors(platform, fsPath) : Len(e) > Len(d)}) = k - 1

C6_Probes == {i \in 1..Len(log) : log[i].op = "exists"}

C6_NotFound == ret.t = "err" /\ StartsWithAt(ret.msg, "Could not find .git folder for file ", 1)

\* the probes go up from the parent directory one ancestor at a time; a
\* search that has ended found the nearest ancestor with a .git entry, or
\* none exists and it reported so
C6_Nearest ==
    (editor = "file" /\ pc # "idle") =>
        /\ C6_Probes = 1..Cardinality(C6_Probes)
        /\ Cardinality(C6_Probes) <= Cardinality(C1_Ancestors(platform, fsPath))
        /\ \A i \in C6_Probes : log[i].arg = C1_Under(C6_AncestorAt(i), ".git")
        /\ gitDataPath # "" =>
            /\ C6_WithGit # {}
            /\ \E d \in C6_WithGit :
                /\ gitDataPath = C1_Under(d, ".git")
                /\ \A e \in C6_WithGit : Len(e) <= Len(d)
        /\ C6_NotFound => (C6_WithGit = {} /\ gitDataPath = "")
        /\ pc # "find" => (C6_NotFound <=> C6_WithGit = {})
        /\ pc # "find" => (gitDataPath # "" <=> C6_WithGit # {})

\* C6: findGitDataPath always terminates; it probes the ancestors of the
\* start path from its parent directory upwards without skipping one, returns
\* the .git entry of the nearest ancestor that has one, and reports not-found
\* exactly when no ancestor up to the root has one.
C6_NearestAncestor ==
    /\ []C6_Nearest
    /\ ((pc = "find") ~> (pc # "find"))

C6_Witness ==
    /\ fsPath = "/d1/d2/app.ts"
    /\ gitEntries = {"/.git", "/d1/.git"}
    /\ gitDataPath = "/d1/.git"
    /\ pc = "head"
    /\ Len(log) = 2

\* C7: the lines extractSection returns for a found section are the lines
\* after the header up to the first line that does not begin with whitespace,
\* or to the end of the file: the keys they decode to are the keys of exactly
\* these lines, so no blank line or later header lets a later section's keys
\* in, and a last line without newline belongs to the section.
C7_IndentedLines ==
    \A i \in SectionLookups :
        matchSection(configFile.data, log[i].arg).t = "ok" =>
            decodeKeyValuePairs(extractSection(configFile.data, log[i].arg).v)
                = decodeKeyValuePairs(
                      RefBodyText(configFile.data,
                                  matchSection(configFile.data, log[i].arg).v.from))

\* C8: a lookup selects the section whose header is character for character
\* [<sectionHeader>] at the start of a line, for names with '.', '+', '(' or
\* '*' too, and a name with '"' or ']' makes the lookup fail.
C8_LiteralHeader ==
    \A i \in SectionLookups :
        /\ matchSection(configFile.data, log[i].arg).t = "ok" =>
            /\ RefHeaderAt(configFile.data, log[i].arg,
                           matchSection(configFile.data, log[i].arg).v.index)
            /\ ~Contains(InnerName(log[i].arg), "\"")
            /\ ~Contains(InnerName(log[i].arg), "]")
        /\ (RefHeaders(configFile.data, log[i].arg) # {}
            /\ ~Contains(InnerName(log[i].arg), "\"")
            /\ ~Contains(InnerName(log[i].arg), "]")) =>
               matchSection(configFile.data, log[i].arg).t = "ok"

\* a HEAD that holds nothing but 40 lowercase hex characters
C9_Standalone(strHead) ==
    Len(Trim(strHead)) = ShaLen /\ IsHexRun(Trim(strHead), 1, ShaLen)

\* C9: a readable HEAD is a branch when it holds ref: refs/heads/<name>,
\* otherwise a detached commit only when it holds a standalone run of exactly
\* 40 lowercase hex characters, that run being the sha, otherwise malformed.
C9_ThreeOutcomes ==
    (variant = "rich" /\ pc \in {"upstream", "remote", "finish", "done"}
        /\ gitDataPath # "" /\ headFile.exists) =>
        IF Contains(headFile.data, RefPattern)
        THEN head.type = "branch" /\ Contains(headFile.data, RefPattern \o head.branch)
        ELSE IF C9_Standalone(headFile.data)
        THEN head = [type |-> "sha1", sha1 |-> Trim(headFile.data)]
        ELSE /\ head = NoHead
             /\ ret = Err("HEAD file does not match ref pattern or sha1 pattern")

\* C10: on a HEAD that matches the branch pattern the richer and the simpler
\* variant return the same outcome: the same gitDataPath, branch, upstream
\* and upstreamBranch, or a failure with the same message.
C10_SameOutcome ==
    (/\ lastRepo["rich"] # None
     /\ lastRepo["simple"] # None
     /\ headFile.exists
     /\ Contains(headFile.data, RefPattern)) =>
        lastRepo["rich"] = lastRepo["simple"]

=============================================================================
